---- MODULE Spec2Model ----
\* The railroad-diagram generator of generate/main.go: the root command
\* fetches the grammar source once, starts one goroutine for the stmt_block
\* overview and one per stmtSpec, and waits for all of them.  Every error is
\* handled with log.Fatal, which ends the whole process with status 1.
\*
\* EBNF text is a sequence of atoms (a quoted keyword, a production name,
\* a token name, a marker suffix, punctuation); bytes.Replace and the
\* patterns act on sub-sequences of atoms.
EXTENDS Integers, Sequences, FiniteSets, TLC

\* ------------------------------------------------------------------ bounds

\* Number of entries of the specs list that the fan-out loop starts.
NumSpecs == 2

\* ------------------------------------------------------------ text helpers

RECURSIVE ReplaceAll(_, _, _)
\* bytes.Replace(t, old, new, -1): every non-overlapping occurrence, left to
\* right.  old is never empty here.
ReplaceAll(t, old, new) ==
    IF Len(t) < Len(old) \/ Len(old) = 0 THEN t
    ELSE IF SubSeq(t, 1, Len(old)) = old
         THEN new \o ReplaceAll(SubSeq(t, Len(old) + 1, Len(t)), old, new)
         ELSE <<Head(t)>> \o ReplaceAll(Tail(t), old, new)

RECURSIVE ReplaceFirst(_, _, _)
\* strings.Replace(t, old, new, 1): the first occurrence only.
ReplaceFirst(t, old, new) ==
    IF Len(t) < Len(old) \/ Len(old) = 0 THEN t
    ELSE IF SubSeq(t, 1, Len(old)) = old
         THEN new \o SubSeq(t, Len(old) + 1, Len(t))
         ELSE <<Head(t)>> \o ReplaceFirst(Tail(t), old, new)

\* The text t holds p as a contiguous sub-sequence.
Contains(t, p) ==
    \E k \in 1..(Len(t) - Len(p) + 1) : SubSeq(t, k, k + Len(p) - 1) = p

\* regexp.Regexp over the text: a pattern is a set of literal alternatives
\* ('BEGIN'|'START'), matched anywhere in the text.
PatMatch(p, t) == \E q \in p : Contains(t, q)

RECURSIVE Join(_, _)
\* The sequences of ss, separated by sep.
Join(ss, sep) ==
    IF Len(ss) = 0 THEN <<>>
    ELSE IF Len(ss) = 1 THEN ss[1]
    ELSE ss[1] \o sep \o Join(Tail(ss), sep)

RECURSIVE Flatten(_)
Flatten(ss) == IF Len(ss) = 0 THEN <<>> ELSE ss[1] \o Flatten(Tail(ss))

Range(f) == {f[x] : x \in DOMAIN f}

\* All orders in which the indices 1..n can be visited.
Orders(n) == {o \in [1..n -> 1..n] : Range(o) = 1..n}

\* -------------------------------------------------- the extract package
\* ParseGrammar, Inline and ExtractProduction belong to the package
\* generate/extract, modelled from the specification (sections 3 and 4).

\* A grammar source is a sequence of rules; a rule that does not follow the
\* name : body ; syntax has ok = FALSE.
Rule(n, body) == [name |-> n, body |-> body, ok |-> TRUE]

GoodSource ==
    << Rule("stmt_block", << <<"stmt">> >>),
       Rule("stmt", << <<"drop_stmt">>, <<"truncate_stmt">> >>),
       Rule("drop_stmt", << <<"'DROP'", "'DATABASE'", "name">>,
                            <<"'DROP'", "'TABLE'", "qualified_name">> >>),
       Rule("truncate_stmt", << <<"'TRUNCATE'", "relation_expr">> >>),
       Rule("relation_expr", << <<"qualified_name">>,
                                <<"'ONLY'", "qualified_name">> >>),
       Rule("qualified_name", << <<"name">>, <<"name", "'.'", "name">> >>),
       Rule("name", << <<"IDENT">>, <<"'NOT", "_LA", "'">> >>) >>

\* The source without the rule named n.
Without(src, n) == SelectSeq(src, LAMBDA r : r.name # n)

\* The source with the alternatives holding the atom a removed from rule n.
WithoutAlt(src, n, a) ==
    [k \in 1..Len(src) |->
        IF src[k].name = n
        THEN [src[k] EXCEPT !.body =
                 SelectSeq(src[k].body, LAMBDA alt : ~Contains(alt, <<a>>))]
        ELSE src[k]]

\* A source with a rule that is not well formed.
Malformed == [GoodSource EXCEPT ![2].ok = FALSE]

\* What runBNF can return: versions of the grammar at the fetched address.
Sources ==
    { GoodSource, Malformed,
      Without(GoodSource, "truncate_stmt"),
      WithoutAlt(Without(GoodSource, "relation_expr"), "drop_stmt", "'TABLE'") }

EmptyGrammar == <<>>

RECURSIVE Productions(_)
\* The mapping from production name to body that the rules define.
Productions(src) ==
    IF Len(src) = 0 THEN EmptyGrammar
    ELSE (Head(src).name :> Head(src).body) @@ Productions(Tail(src))

\* parse(sourceText) -> Grammar, or SyntaxError.
ParseGrammar(src) ==
    IF \E k \in 1..Len(src) : ~src[k].ok
    THEN [err |-> "SyntaxError", g |-> EmptyGrammar]
    ELSE [err |-> "", g |-> Productions(src)]

\* The body of an inlined production where a Reference stood: a Group when
\* it has several alternatives.
GroupOf(body) ==
    IF Len(body) = 1 THEN body[1]
    ELSE <<"(">> \o Join(body, <<"|">>) \o <<")">>

\* Every Reference to n in the grammar replaced by n's body, and the
\* production n removed.
InlineOne(gr, n) ==
    [m \in DOMAIN gr \ {n} |->
        [k \in 1..Len(gr[m]) |-> ReplaceAll(gr[m][k], <<n>>, GroupOf(gr[n]))]]

RECURSIVE InlineAll(_, _)
\* The names inlined in order; an absent name is an UnknownProductionError,
\* a body that, after the inlines before it, refers to itself an
\* InlineCycleError.
InlineAll(gr, names) ==
    IF Len(names) = 0 THEN [err |-> "", g |-> gr]
    ELSE IF Head(names) \notin DOMAIN gr
         THEN [err |-> "UnknownProductionError", g |-> gr]
    ELSE IF \E k \in 1..Len(gr[Head(names)]) :
                Contains(gr[Head(names)][k], <<Head(names)>>)
         THEN [err |-> "InlineCycleError", g |-> gr]
    ELSE InlineAll(InlineOne(gr, Head(names)), Tail(names))

\* inline(grammar, names): the grammar with every name inlined, or the
\* error and the grammar as it was given.
Inline(gr, names) ==
    LET r == InlineAll(gr, names)
    IN IF r.err # "" THEN [err |-> r.err, g |-> gr] ELSE r

\* An alternative is kept when it satisfies every match pattern and none of
\* the exclude patterns.
Keep(alt, match, exclude) ==
    /\ \A k \in 1..Len(match) : PatMatch(match[k], alt)
    /\ \A k \in 1..Len(exclude) : ~PatMatch(exclude[k], alt)

\* One production as text: name ::= alt | alt ...
Serialize(n, alts) == <<n, "::=">> \o Join(alts, <<"|">>)

RECURSIVE Reachable(_, _, _)
\* The productions reachable from the names of todo, each visited once, in
\* the order of their first reference.
Reachable(gr, todo, seen) ==
    IF Len(todo) = 0 THEN <<>>
    ELSE IF Head(todo) \in seen \/ Head(todo) \notin DOMAIN gr
         THEN Reachable(gr, Tail(todo), seen)
    ELSE <<Head(todo)>> \o
         Reachable(gr,
                   Tail(todo) \o
                     SelectSeq(Flatten(gr[Head(todo)]), LAMBDA a : a \in DOMAIN gr),
                   seen \cup {Head(todo)})

\* extract(grammar, root, descend, noSplit, match, exclude): the root's
\* alternatives filtered by match and exclude; with descend, followed by
\* every production reachable from them.
ExtractProduction(gr, root, descend, nosplit, match, exclude) ==
    IF root \notin DOMAIN gr
    THEN [err |-> "UnknownProductionError", b |-> <<>>]
    ELSE LET alts == SelectSeq(gr[root], LAMBDA alt : Keep(alt, match, exclude))
             rest == IF descend
                     THEN Reachable(gr,
                                    SelectSeq(Flatten(alts), LAMBDA a : a \in DOMAIN gr),
                                    {root})
                     ELSE <<>>
         IN IF Len(alts) = 0
            THEN [err |-> "EmptyExtractionError", b |-> <<>>]
            ELSE [err |-> "",
                  b |-> Join(<<Serialize(root, alts)>> \o
                               [k \in 1..Len(rest) |-> Serialize(rest[k], gr[rest[k]])],
                             <<"\n">>)]

\* ------------------------------------------------------------- stmtSpec

\* The zero value of stmtSpec.
ZeroSpec ==
    [name |-> "", stmt |-> "", inline |-> <<>>, replace |-> <<>>,
     regreplace |-> <<>>, match |-> <<>>, exclude |-> <<>>, unlink |-> <<>>,
     nosplit |-> FALSE]

\* Entries of the specs literal, in the shape of those it lists.  replace and
\* regreplace are written as the literal lists them, from -> to.
SpecList ==
    << [ZeroSpec EXCEPT
          !.name = "truncate_stmt",
          !.inline = <<"relation_expr">>,
          !.replace = << << <<"'ONLY'", "qualified_name">>, <<>> >>,
                         << <<"qualified_name">>, <<"table_name">> >> >>,
          !.unlink = <<"table_name">>],
       [ZeroSpec EXCEPT
          !.name = "drop_table", !.stmt = "drop_stmt",
          !.match = << {<<"'DROP'", "'TABLE'">>} >>],
       [ZeroSpec EXCEPT
          !.name = "drop_database", !.stmt = "drop_stmt",
          !.match = << {<<"'DROP'", "'DATABASE'">>} >>],
       [ZeroSpec EXCEPT
          !.name = "drop_stmt",
          !.inline = <<"qualified_name">>,
          !.regreplace = << << <<"(", "name", "|">>, <<"(">> >> >>] >>

\* The name of a spec split where strings.Replace(name, "_stmt", "", 1) can
\* act on it.
NameParts(n) ==
    LET at == {i \in 1..(Len(n) - 4) : SubSeq(n, i, i + 4) = "_stmt"}
    IN IF at = {} THEN <<n>>
       ELSE LET i == CHOOSE i \in at : \A j \in at : i <= j
            IN SelectSeq(<<SubSeq(n, 1, i - 1), "_stmt", SubSeq(n, i + 5, Len(n))>>,
                         LAMBDA p : p # "")

\* filepath.Join(baseDir, fmt.Sprintf("%s.html", name)) for a spec.
SpecPath(n) == ReplaceFirst(NameParts(n), <<"_stmt">>, <<>>) \o <<".html">>

\* filepath.Join(baseDir, "grammar.html").
OverviewPath == <<"grammar", ".html">>

\* ------------------------------------------------------------- renderer

\* The atoms the renderer draws as a linked non-terminal.
IsNonTerminal(a) ==
    a \in {"stmt_block", "stmt", "drop_stmt", "truncate_stmt", "relation_expr",
           "qualified_name", "name", "table_name"}

\* The markup returned for a text: a link for every non-terminal, the atom
\* itself for everything else.  page is the part of the href before '#'.
Markup(t) ==
    [k \in 1..Len(t) |->
        IF IsNonTerminal(t[k])
        THEN [kind |-> "a", page |-> "", anchor |-> t[k], title |-> t[k], inner |-> t[k]]
        ELSE [kind |-> "text", page |-> "", anchor |-> "", title |-> "", inner |-> t[k]]]

\* strings.Replace(body, `<a xlink:href="#`, `<a xlink:href="sql-grammar.html#`, -1).
Rehref(m) ==
    [k \in 1..Len(m) |->
        IF m[k].kind = "a" /\ m[k].page = ""
        THEN [m[k] EXCEPT !.page = "sql-grammar.html"]
        ELSE m[k]]

\* One pass of the unlink loop: the links to sql-grammar.html#u titled u are
\* replaced by their content.
UnlinkOne(m, u) ==
    [k \in 1..Len(m) |->
        IF m[k].kind = "a" /\ m[k].page = "sql-grammar.html"
           /\ m[k].anchor = u /\ m[k].title = u
        THEN [kind |-> "text", page |-> "", anchor |-> "", title |-> "", inner |-> m[k].inner]
        ELSE m[k]]

\* No link removed.
UnlinkNone(m, us) == m

RECURSIVE Unlink(_, _)
Unlink(m, us) ==
    IF Len(us) = 0 THEN m ELSE Unlink(UnlinkOne(m, Head(us)), Tail(us))

\* --------------------------------------------------------------- state

VARIABLES
    specs,      \* the specs list of the run
    filter,     \* --filter
    printBNF,   \* --bnf
    bnf,        \* what runBNF returned (<<>> before the fetch)
    mainPc,     \* where rootCmd.Run stands
    idx,        \* the entry of specs the fan-out loop starts next
    wg,         \* the sync.WaitGroup counter
    pc,         \* where each goroutine stands
    s,          \* each goroutine's copy of its stmtSpec
    g,          \* runParse's Grammar, one per call
    ebnf,       \* each goroutine's EBNF text
    raw,        \* what ExtractProduction returned to each goroutine
    applied,    \* the replacements each goroutine applied, in order
    body,       \* each goroutine's markup
    trace,      \* the steps each goroutine executed, with their outcome
    fatalArgs,  \* what a failed goroutine passes to log.Fatal
    files,      \* the files under baseDir
    printed,    \* what was printed to stdout
    logged,     \* the messages log.Fatal wrote
    exit        \* "running", or the exit status of the process

vars == <<specs, filter, printBNF, bnf, mainPc, idx, wg, pc, s, g, ebnf, raw,
          applied, body, trace, fatalArgs, files, printed, logged, exit>>

\* Goroutine 0 is the stmt_block overview, goroutine k the one of specs[k].
Workers == 0..NumSpecs
SpecWorkers == 1..NumSpecs

\* Every goroutine taken for the one the filter names.
NameAny(w) == filter

\* The name a goroutine compares with the filter.
Name(w) == IF w = 0 THEN "stmt_block" ELSE s[w].name

\* The overview extracted without descent.
OverviewArgsNoDescend ==
    [inline |-> <<>>, topStmt |-> "stmt_block", descend |-> FALSE,
     nosplit |-> TRUE, match |-> <<>>, exclude |-> <<>>]

\* The arguments of runParse in the overview goroutine.
OverviewArgs ==
    [inline |-> <<>>, topStmt |-> "stmt_block", descend |-> TRUE,
     nosplit |-> TRUE, match |-> <<>>, exclude |-> <<>>]

\* The call with the exclude patterns left out.
SpecArgsNoExclude(sp) ==
    [inline |-> sp.inline, topStmt |-> sp.stmt, descend |-> FALSE,
     nosplit |-> sp.nosplit, match |-> sp.match, exclude |-> <<>>]

\* The call with no name to inline.
SpecArgsNoInline(sp) ==
    [inline |-> <<>>, topStmt |-> sp.stmt, descend |-> FALSE,
     nosplit |-> sp.nosplit, match |-> sp.match, exclude |-> sp.exclude]

\* The call with the match patterns left out.
SpecArgsNoMatch(sp) ==
    [inline |-> sp.inline, topStmt |-> sp.stmt, descend |-> FALSE,
     nosplit |-> sp.nosplit, match |-> <<>>, exclude |-> sp.exclude]

\* The arguments of runParse in a spec's goroutine.
SpecArgs(sp) ==
    [inline |-> sp.inline, topStmt |-> sp.stmt, descend |-> FALSE,
     nosplit |-> sp.nosplit, match |-> sp.match, exclude |-> sp.exclude]

Args(w) == IF w = 0 THEN OverviewArgs ELSE SpecArgs(s[w])

\* One Grammar shared by every call.
SlotShared(w) == 0

\* runParse's g is a variable of the call: one Grammar per goroutine.
Slot(w) == w

\* The error dropped: the goroutine goes on.
ErrIgnored(err, next) == next

\* if err != nil { log.Fatal(...) }: where the goroutine goes after a step.
ErrCheck(err, next) == IF err # "" THEN "fatal" ELSE next

\* The goroutine started without wg.Add(1).
WgNoAdd(n) == n

\* wg.Add(1) before a goroutine is started.
WgAdd(n) == n + 1

\* bytes.Replace(b, "IDENT", "identifier", -1), then "_LA" removed.
Normalize(b) ==
    ReplaceAll(ReplaceAll(b, <<"IDENT">>, <<"identifier">>), <<"_LA">>, <<>>)

RECURSIVE ApplyList(_, _, _)
\* The pairs of list applied to the text in the order given by keys.
ApplyList(t, list, keys) ==
    IF Len(keys) = 0 THEN t
    ELSE ApplyList(ReplaceAll(t, list[Head(keys)][1], list[Head(keys)][2]),
                   list, Tail(keys))

\* for from, to := range m: a Go map is ranged over in an order that is not
\* specified and changes from run to run.
RangeOrders(m) == {[k \in 1..Len(m) |-> o[k]] : o \in Orders(Len(m))}

Step(w, name, ok) == [trace EXCEPT ![w] = Append(@, <<name, ok>>)]

\* The values of --filter: none, the overview, one spec.
Filters == {"", "stmt_block", "drop_table"}

InitRun ==
    /\ filter \in Filters
    /\ printBNF \in BOOLEAN
    /\ bnf = <<>>
    /\ mainPc = "fetch"
    /\ idx = 1
    /\ wg = 0
    /\ pc = [w \in Workers |-> "idle"]
    /\ s = [w \in Workers |-> ZeroSpec]
    /\ g = [w \in Workers |-> EmptyGrammar]
    /\ ebnf = [w \in Workers |-> <<>>]
    /\ raw = [w \in Workers |-> <<>>]
    /\ applied = [w \in Workers |-> <<>>]
    /\ body = [w \in Workers |-> [tag |-> FALSE, m |-> <<>>]]
    /\ trace = [w \in Workers |-> <<>>]
    /\ fatalArgs = [w \in Workers |-> <<>>]
    /\ files = <<>>
    /\ printed = {}
    /\ logged = {}
    /\ exit = "running"

\* The runs of the model start NumSpecs consecutive entries of the list.
Windows ==
    {SubSeq(SpecList, k, k + NumSpecs - 1) : k \in 1..(Len(SpecList) - NumSpecs + 1)}

Init == specs \in Windows /\ InitRun

\* -------------------------------------------------------- rootCmd.Run

\* bnf, err := runBNF(addr) returned a source.
MainFetch ==
    /\ exit = "running" /\ mainPc = "fetch"
    /\ \E src \in Sources : bnf' = src
    /\ mainPc' = "goOverview"
    /\ UNCHANGED <<specs, filter, printBNF, idx, wg, pc, s, g, ebnf, raw, applied,
                   body, trace, fatalArgs, files, printed, logged, exit>>

\* runBNF failed: log.Fatal(err).
MainFetchFail ==
    /\ exit = "running" /\ mainPc = "fetch"
    /\ logged' = logged \cup {[w |-> -1, name |-> "", err |-> "FetchError"]}
    /\ exit' = "1"
    /\ UNCHANGED <<specs, filter, printBNF, bnf, mainPc, idx, wg, pc, s, g, ebnf,
                   raw, applied, body, trace, fatalArgs, files, printed>>

\* The overview goroutine started while runBNF has not returned.
MainGoOverviewEarly ==
    /\ exit = "running" /\ mainPc = "fetch" /\ pc[0] = "idle"
    /\ wg' = WgAdd(wg)
    /\ pc' = [pc EXCEPT ![0] = "start"]
    /\ UNCHANGED <<specs, filter, printBNF, bnf, mainPc, idx, s, g, ebnf, raw,
                   applied, body, trace, fatalArgs, files, printed, logged, exit>>

\* wg.Add(1); go func() { ... }() for the overview.
MainGoOverview ==
    /\ exit = "running" /\ mainPc = "goOverview"
    /\ wg' = WgAdd(wg)
    /\ pc' = [pc EXCEPT ![0] = "start"]
    /\ mainPc' = "loop"
    /\ UNCHANGED <<specs, filter, printBNF, bnf, idx, s, g, ebnf, raw, applied,
                   body, trace, fatalArgs, files, printed, logged, exit>>

\* One turn of for _, s := range specs: wg.Add(1); go func(s stmtSpec) {...}(s).
MainGoSpec ==
    /\ exit = "running" /\ mainPc = "loop" /\ idx <= Len(specs)
    /\ wg' = WgAdd(wg)
    /\ pc' = [pc EXCEPT ![idx] = "start"]
    /\ s' = [s EXCEPT ![idx] = specs[idx]]
    /\ idx' = idx + 1
    /\ UNCHANGED <<specs, filter, printBNF, bnf, mainPc, g, ebnf, raw, applied,
                   body, trace, fatalArgs, files, printed, logged, exit>>

\* The loop is over and wg.Wait() returns, the counter being zero: Run
\* returns.
MainWait ==
    /\ exit = "running" /\ mainPc = "loop" /\ idx > Len(specs) /\ wg = 0
    /\ mainPc' = "returned"
    /\ UNCHANGED <<specs, filter, printBNF, bnf, idx, wg, pc, s, g, ebnf, raw,
                   applied, body, trace, fatalArgs, files, printed, logged, exit>>

\* rootCmd.Execute() returned and main ends: the process exits with status 0.
MainReturn ==
    /\ exit = "running" /\ mainPc = "returned"
    /\ exit' = "0"
    /\ UNCHANGED <<specs, filter, printBNF, bnf, mainPc, idx, wg, pc, s, g, ebnf,
                   raw, applied, body, trace, fatalArgs, files, printed, logged>>

\* ---------------------------------------------------------- goroutines

\* A goroutine that returns without wg.Done().
DoneNoSignal(w) ==
    /\ pc' = [pc EXCEPT ![w] = "done"]
    /\ wg' = wg

\* defer wg.Done() of a goroutine that returns.
Done(w) ==
    /\ pc' = [pc EXCEPT ![w] = "done"]
    /\ wg' = wg - 1

\* s.stmt left as the spec gives it.
WithStmtKept(sp) == sp

\* if s.stmt == "" { s.stmt = s.name }.
WithStmt(sp) == IF sp.stmt = "" THEN [sp EXCEPT !.stmt = sp.name] ELSE sp

\* The filter test, and for a spec the default of s.stmt.
Start(w) ==
    /\ exit = "running" /\ pc[w] = "start"
    /\ IF filter # "" /\ filter # Name(w)
       THEN Done(w) /\ s' = s
       ELSE /\ pc' = [pc EXCEPT ![w] = "parse"]
            /\ s' = IF w # 0 THEN [s EXCEPT ![w] = WithStmt(s[w])] ELSE s
            /\ wg' = wg
    /\ UNCHANGED <<specs, filter, printBNF, bnf, mainPc, idx, g, ebnf, raw, applied,
                   body, trace, fatalArgs, files, printed, logged, exit>>

\* runParse: g, err := extract.ParseGrammar(r), r a new reader of bnf.
Parse(w) ==
    /\ exit = "running" /\ pc[w] = "parse"
    /\ LET r == ParseGrammar(bnf)
       IN /\ g' = [g EXCEPT ![Slot(w)] = r.g]
          /\ trace' = Step(w, "parse", r.err = "")
          /\ pc' = [pc EXCEPT ![w] = ErrCheck(r.err, "inline")]
          /\ fatalArgs' = IF r.err # ""
                          THEN [fatalArgs EXCEPT ![w] = [name |-> "", err |-> r.err]]
                          ELSE fatalArgs
    /\ UNCHANGED <<specs, filter, printBNF, bnf, mainPc, idx, wg, s, ebnf, raw,
                   applied, body, files, printed, logged, exit>>

\* runParse: g.Inline(inline...).
InlineStep(w) ==
    /\ exit = "running" /\ pc[w] = "inline"
    /\ LET r == Inline(g[Slot(w)], Args(w).inline)
       IN /\ g' = [g EXCEPT ![Slot(w)] = r.g]
          /\ trace' = Step(w, "inline", r.err = "")
          /\ pc' = [pc EXCEPT ![w] = ErrCheck(r.err, "extract")]
          /\ fatalArgs' = IF r.err # ""
                          THEN [fatalArgs EXCEPT ![w] = [name |-> "", err |-> r.err]]
                          ELSE fatalArgs
    /\ UNCHANGED <<specs, filter, printBNF, bnf, mainPc, idx, wg, s, ebnf, raw,
                   applied, body, files, printed, logged, exit>>

\* runParse: g.ExtractProduction(...), the two bytes.Replace, return b, err;
\* and the caller's test of err.
Extract(w) ==
    /\ exit = "running" /\ pc[w] = "extract"
    /\ LET a == Args(w)
           r == ExtractProduction(g[Slot(w)], a.topStmt, a.descend, a.nosplit,
                                  a.match, a.exclude)
       IN /\ raw' = [raw EXCEPT ![w] = r.b]
          /\ ebnf' = [ebnf EXCEPT ![w] = Normalize(r.b)]
          /\ trace' = Step(w, "extract", r.err = "")
          /\ pc' = [pc EXCEPT ![w] = ErrCheck(r.err, "post")]
          /\ fatalArgs' = IF r.err # ""
                          THEN [fatalArgs EXCEPT ![w] =
                                  [name |-> IF w = 0 THEN "" ELSE s[w].name,
                                   err |-> r.err]]
                          ELSE fatalArgs
    /\ UNCHANGED <<specs, filter, printBNF, bnf, mainPc, idx, wg, s, g, applied,
                   body, files, printed, logged, exit>>

\* The flag never set.
PrintNever == FALSE

\* if printBNF { fmt.Printf(...); return }.
PrintOnly == printBNF

\* The overview after runParse: with --bnf the text is printed and the
\* goroutine returns.
OverviewPost ==
    /\ exit = "running" /\ pc[0] = "post"
    /\ IF PrintOnly
       THEN /\ printed' = printed \cup {<<"stmt_block", "", ebnf[0]>>}
            /\ Done(0)
       ELSE /\ pc' = [pc EXCEPT ![0] = "render"]
            /\ UNCHANGED <<printed, wg>>
    /\ UNCHANGED <<specs, filter, printBNF, bnf, mainPc, idx, s, g, ebnf, raw,
                   applied, body, trace, fatalArgs, files, logged, exit>>

\* A spec after runParse: the range over s.replace, then the range over
\* s.regreplace; with --bnf the text is printed before and after, and the
\* goroutine returns.
Replace(w) ==
    /\ exit = "running" /\ w # 0 /\ pc[w] = "post"
    /\ \E o1 \in RangeOrders(s[w].replace), o2 \in RangeOrders(s[w].regreplace) :
         LET t1 == ApplyList(ebnf[w], s[w].replace, o1)
             t2 == ApplyList(t1, s[w].regreplace, o2)
         IN /\ ebnf' = [ebnf EXCEPT ![w] = t2]
            /\ applied' = [applied EXCEPT ![w] =
                  [k \in 1..Len(o1) |-> <<"replace", s[w].replace[o1[k]][1]>>] \o
                  [k \in 1..Len(o2) |-> <<"regreplace", s[w].regreplace[o2[k]][1]>>]]
            /\ IF PrintOnly
               THEN /\ printed' = printed \cup
                          {<<s[w].name, "PRE REPLACE", ebnf[w]>>,
                           <<s[w].name, "POST REPLACE", t2>>}
                    /\ Done(w)
               ELSE /\ pc' = [pc EXCEPT ![w] = "render"]
                    /\ UNCHANGED <<printed, wg>>
    /\ trace' = Step(w, "replace", TRUE)
    /\ UNCHANGED <<specs, filter, printBNF, bnf, mainPc, idx, s, g, raw, body,
                   fatalArgs, files, logged, exit>>

\* runRR(name, bytes.NewReader(g)): the renderer answers with markup that
\* holds the wanted element, with markup that does not, or with an error.
Render(w) ==
    /\ exit = "running" /\ pc[w] = "render"
    /\ \E res \in {"ok", "notag", "err"} :
         /\ body' = [body EXCEPT ![w] =
                       IF res = "err" THEN [tag |-> FALSE, m |-> <<>>]
                       ELSE [tag |-> res = "ok", m |-> Markup(ebnf[w])]]
         /\ trace' = Step(w, "render", res # "err")
         /\ pc' = [pc EXCEPT ![w] = ErrCheck(IF res = "err" THEN "RenderError" ELSE "", "tag")]
         /\ fatalArgs' = IF res = "err"
                         THEN [fatalArgs EXCEPT ![w] =
                                 [name |-> IF w = 0 THEN "" ELSE s[w].name,
                                  err |-> "RenderError"]]
                         ELSE fatalArgs
    /\ UNCHANGED <<specs, filter, printBNF, bnf, mainPc, idx, wg, s, g, ebnf, raw,
                   applied, files, printed, logged, exit>>

\* The overview: extract.InnerTag(rr, "body"), the body cut and wrapped, and
\* only then the test of InnerTag's err.
OverviewTag ==
    /\ exit = "running" /\ pc[0] = "tag"
    /\ body' = [body EXCEPT ![0].m = IF body[0].tag THEN body[0].m ELSE <<>>]
    /\ trace' = Step(0, "tag", body[0].tag)
    /\ pc' = [pc EXCEPT ![0] = ErrCheck(IF body[0].tag THEN "" ELSE "TagError", "write")]
    /\ fatalArgs' = IF body[0].tag THEN fatalArgs
                    ELSE [fatalArgs EXCEPT ![0] = [name |-> "", err |-> "TagError"]]
    /\ UNCHANGED <<specs, filter, printBNF, bnf, mainPc, idx, wg, s, g, ebnf, raw,
                   applied, files, printed, logged, exit>>

\* A spec: extract.ExtractTag(rr, "svg"), the test of its err, the links
\* pointed at sql-grammar.html and the unlink loop.
Tag(w) ==
    /\ exit = "running" /\ w # 0 /\ pc[w] = "tag"
    /\ pc' = [pc EXCEPT ![w] = ErrCheck(IF body[w].tag THEN "" ELSE "TagError", "write")]
    /\ IF body[w].tag
       THEN /\ body' = [body EXCEPT ![w].m = Unlink(Rehref(body[w].m), s[w].unlink)]
            /\ fatalArgs' = fatalArgs
       ELSE /\ body' = [body EXCEPT ![w].m = <<>>]
            /\ fatalArgs' = [fatalArgs EXCEPT ![w] =
                               [name |-> s[w].name, err |-> "TagError"]]
    /\ trace' = Step(w, "tag", body[w].tag)
    /\ UNCHANGED <<specs, filter, printBNF, bnf, mainPc, idx, wg, s, g, ebnf, raw,
                   applied, files, printed, logged, exit>>

\* The path taken from the production a spec draws.
PathOfStmt(w) == IF w = 0 THEN OverviewPath ELSE SpecPath(s[w].stmt)

\* The path a goroutine writes.
Path(w) == IF w = 0 THEN OverviewPath ELSE SpecPath(s[w].name)

\* ioutil.WriteFile opens (creates or truncates) the file, or fails.
WriteOpen(w) ==
    /\ exit = "running" /\ pc[w] = "write"
    /\ \E ok \in BOOLEAN :
         /\ pc' = [pc EXCEPT ![w] = ErrCheck(IF ok THEN "" ELSE "WriteError", "writing")]
         /\ IF ok
            THEN /\ files' = (Path(w) :> [complete |-> FALSE, by |-> w, data |-> <<>>]) @@ files
                 /\ UNCHANGED <<trace, fatalArgs>>
            ELSE
              /\ files' = files
              /\ trace' = Step(w, "write", FALSE)
              /\ fatalArgs' = [fatalArgs EXCEPT ![w] =
                                 [name |-> IF w = 0 THEN "" ELSE s[w].name,
                                  err |-> "WriteError"]]
    /\ UNCHANGED <<specs, filter, printBNF, bnf, mainPc, idx, wg, s, g, ebnf, raw,
                   applied, body, printed, logged, exit>>

\* ioutil.WriteFile writes the body and closes the file, or fails; after it
\* the goroutine returns.
WriteClose(w) ==
    /\ exit = "running" /\ pc[w] = "writing"
    /\ \E ok \in BOOLEAN :
         IF ErrCheck(IF ok THEN "" ELSE "WriteError", "done") = "done"
         THEN /\ files' = (Path(w) :> [complete |-> ok, by |-> w, data |-> body[w].m]) @@ files
              /\ trace' = Step(w, "write", ok)
              /\ Done(w)
              /\ fatalArgs' = fatalArgs
         ELSE /\ files' = files
              /\ pc' = [pc EXCEPT ![w] = "fatal"]
              /\ wg' = wg
              /\ trace' = Step(w, "write", FALSE)
              /\ fatalArgs' = [fatalArgs EXCEPT ![w] =
                                 [name |-> IF w = 0 THEN "" ELSE s[w].name,
                                  err |-> "WriteError"]]
    /\ UNCHANGED <<specs, filter, printBNF, bnf, mainPc, idx, s, g, ebnf, raw,
                   applied, body, printed, logged, exit>>

\* log.Fatal / log.Fatalf: the message is written and os.Exit(1) ends the
\* process, every other goroutine with it.
Fatal(w) ==
    /\ exit = "running" /\ pc[w] = "fatal"
    /\ logged' = logged \cup {[w |-> w, name |-> fatalArgs[w].name,
                               err |-> fatalArgs[w].err]}
    /\ exit' = "1"
    /\ UNCHANGED <<specs, filter, printBNF, bnf, mainPc, idx, wg, pc, s, g, ebnf,
                   raw, applied, body, trace, fatalArgs, files, printed>>

Next ==
    \/ MainFetch \/ MainFetchFail \/ MainGoOverview \/ MainGoSpec
    \/ MainWait \/ MainReturn
    \/ OverviewPost \/ OverviewTag
    \/ \E w \in Workers :
         \/ Start(w) \/ Parse(w) \/ InlineStep(w) \/ Extract(w) \/ Replace(w)
         \/ Render(w) \/ Tag(w) \/ WriteOpen(w) \/ WriteClose(w) \/ Fatal(w)

Spec == Init /\ [][Next]_vars

\* Some step of the run can happen: Run is not blocked in wg.Wait(), or a
\* goroutine has been started and has not returned.  This is
\* ENABLED <<Next>>_vars, written out.
Runnable ==
    /\ exit = "running"
    /\ \/ mainPc \in {"fetch", "goOverview", "returned"}
       \/ mainPc = "loop" /\ (idx <= Len(specs) \/ wg = 0)
       \/ \E w \in Workers : pc[w] \notin {"idle", "done"}

\* The run under a scheduler that lets a step happen while one can: a
\* runnable goroutine is run, and the calls of the renderer and of the file
\* system return.  The condition is WF_vars(Next) with its ENABLED replaced
\* by Runnable.
SpecFair == Init /\ [][Next]_vars /\ ([]<>(~Runnable) \/ []<><<Next>>_vars)

\* ------------------------------------------- two executions of one spec

\* A run whose list holds the same stmtSpec twice: the pipeline of one spec
\* executed two times on one source.
InitTwice ==
    /\ specs \in {<<SpecList[k], SpecList[k]>> : k \in 1..Len(SpecList)}
    /\ InitRun

SpecTwice == InitTwice /\ [][Next]_vars

\* ------------------------------------------------ runParse on any spec

\* Longest match or exclude list handed to runParse.
MaxPats == 2

Pats ==
    { {<<"'DROP'", "'TABLE'">>},
      {<<"IDENT">>},
      {<<"'DATABASE'">>, <<"identifier">>} }

PatLists == UNION {[1..n -> Pats] : n \in 0..MaxPats}

\* stmtSpec values over the productions of the sources.
ParamSpecs ==
    {[ZeroSpec EXCEPT !.name = "x", !.stmt = st, !.inline = il,
                      !.match = m, !.exclude = e] :
        st \in {"drop_stmt", "name", "nosuch"},
        il \in {<<>>, <<"qualified_name">>, <<"name", "nosuch">>},
        m \in PatLists, e \in PatLists}

\* The goroutine of the one spec of the list stands at its call of runParse;
\* the overview goroutine has been started and has not run yet.
InitRunParse ==
    /\ specs \in {<<x>> : x \in ParamSpecs}
    /\ filter = ""
    /\ printBNF \in BOOLEAN
    /\ bnf \in Sources
    /\ mainPc = "loop"
    /\ idx = 2
    /\ wg = 2
    /\ pc = [w \in Workers |-> IF w = 0 THEN "start" ELSE IF w = 1 THEN "parse" ELSE "idle"]
    /\ s = [w \in Workers |-> IF w = 1 THEN specs[1] ELSE ZeroSpec]
    /\ g = [w \in Workers |-> EmptyGrammar]
    /\ ebnf = [w \in Workers |-> <<>>]
    /\ raw = [w \in Workers |-> <<>>]
    /\ applied = [w \in Workers |-> <<>>]
    /\ body = [w \in Workers |-> [tag |-> FALSE, m |-> <<>>]]
    /\ trace = [w \in Workers |-> <<>>]
    /\ fatalArgs = [w \in Workers |-> <<>>]
    /\ files = <<>>
    /\ printed = {}
    /\ logged = {}
    /\ exit = "running"

NextRunParse ==
    \E w \in SpecWorkers : Parse(w) \/ InlineStep(w) \/ Extract(w) \/ Fatal(w)

SpecRunParse == InitRunParse /\ [][NextRunParse]_vars

\* --------------------------------------------- runParse on any grammar

\* Bodies of the productions of a generated grammar: references to the
\* productions stmt_block, a and b, a keyword and the identifier token.
GenBodies ==
    { << <<"'K'">> >>,
      << <<"a">> >>,
      << <<"'K'", "b">> >>,
      << <<"stmt_block">>, <<"'K'">> >>,
      << <<"a", "b">>, <<"IDENT">> >>,
      << <<"b">>, <<"'K'", "a">> >> }

\* The grammars of three productions with these bodies: every way in which
\* the productions refer to one another and to themselves.
GenSources ==
    {<<Rule("stmt_block", x), Rule("a", y), Rule("b", z)>> : x, y, z \in GenBodies}

\* The inline lists of the generated specs.
GenInlines == {<<>>, <<"a">>, <<"b">>, <<"a", "b">>, <<"b", "a">>}

\* stmtSpec values over the productions of the generated grammars.
GenSpecs ==
    {[ZeroSpec EXCEPT !.name = "x", !.stmt = st, !.inline = il] :
        st \in {"stmt_block", "a"}, il \in GenInlines}

\* The grammar of the scenario of specification section 8:
\* stmt : 'DROP' drop_target ; drop_target : 'TABLE' name | 'DATABASE' name ;
\* name : IDENT ;
ScenarioSource ==
    << Rule("stmt", << <<"'DROP'", "drop_target">> >>),
       Rule("drop_target", << <<"'TABLE'", "name">>, <<"'DATABASE'", "name">> >>),
       Rule("name", << <<"IDENT">> >>) >>

\* The same language with the alternatives written under stmt.
ScenarioFlat ==
    << Rule("stmt", << <<"'DROP'", "'TABLE'", "name">>,
                       <<"'DROP'", "'DATABASE'", "name">> >>),
       Rule("name", << <<"IDENT">> >>) >>

\* The spec of the scenario: root stmt, match 'DROP' 'TABLE', no inline set.
ScenarioSpec ==
    [ZeroSpec EXCEPT !.name = "drop_table", !.stmt = "stmt",
                     !.match = << {<<"'DROP'", "'TABLE'">>} >>]

\* A grammar whose token names hold the characters IDENT and _LA at their
\* end and inside: IDENT, IDENTITY, 'NOT_LA', X_LAY, WITH_LA.  A name that
\* holds them is written as the atoms they cut it into.
TokenSource ==
    << Rule("stmt_block", << <<"a">> >>),
       Rule("a", << <<"IDENT">>, <<"IDENT", "ITY", "b">>, <<"'NOT", "_LA", "'">> >>),
       Rule("b", << <<"X", "_LA", "Y">>, <<"WITH", "_LA">> >>) >>

\* The sources and the specs of the runs on any grammar.
GrammarSources == GenSources \cup {ScenarioSource, ScenarioFlat, TokenSource}
GrammarSpecs == GenSpecs \cup {ScenarioSpec}

\* The overview goroutine and the goroutine of the one spec of the list
\* both stand at their call of runParse.
InitGrammars ==
    /\ specs \in {<<x>> : x \in GrammarSpecs}
    /\ filter = ""
    /\ printBNF = FALSE
    /\ bnf \in GrammarSources
    /\ mainPc = "loop"
    /\ idx = 2
    /\ wg = 2
    /\ pc = [w \in Workers |-> IF w \in {0, 1} THEN "parse" ELSE "idle"]
    /\ s = [w \in Workers |-> IF w = 1 THEN specs[1] ELSE ZeroSpec]
    /\ g = [w \in Workers |-> EmptyGrammar]
    /\ ebnf = [w \in Workers |-> <<>>]
    /\ raw = [w \in Workers |-> <<>>]
    /\ applied = [w \in Workers |-> <<>>]
    /\ body = [w \in Workers |-> [tag |-> FALSE, m |-> <<>>]]
    /\ trace = [w \in Workers |-> <<>>]
    /\ fatalArgs = [w \in Workers |-> <<>>]
    /\ files = <<>>
    /\ printed = {}
    /\ logged = {}
    /\ exit = "running"

NextGrammars ==
    \E w \in {0, 1} : Parse(w) \/ InlineStep(w) \/ Extract(w) \/ Fatal(w)

SpecGrammars == InitGrammars /\ [][NextGrammars]_vars

\* ------------------------------------- one spec with any replacements

\* replace maps of a spec on truncate_stmt: the second entry makes the name
\* table_name that the regex maps below look for.
ReplaceMaps ==
    { <<>>,
      << << <<"qualified_name">>, <<"table_name">> >> >>,
      << << <<"'ONLY'", "qualified_name">>, <<>> >>,
         << <<"qualified_name">>, <<"table_name">> >> >> }

\* regreplace maps: patterns on the text before and after the literal
\* replacements.
RegreplaceMaps ==
    { <<>>,
      << << <<"table_name">>, <<"name">> >> >>,
      << << <<"table_name">>, <<"name">> >>,
         << <<"qualified_name">>, <<"relation_expr">> >> >> }

\* unlink lists over the names the text can hold.
UnlinkLists == {<<>>, <<"table_name">>, <<"name", "truncate_stmt">>}

\* stmtSpec values with every combination of the three.
PostSpecs ==
    {[ZeroSpec EXCEPT !.name = "truncate_stmt", !.inline = <<"relation_expr">>,
                      !.replace = r, !.regreplace = rr, !.unlink = u] :
        r \in ReplaceMaps, rr \in RegreplaceMaps, u \in UnlinkLists}

\* The goroutine of the one spec of the list has passed the filter test and
\* stands at its call of runParse; the overview goroutine has been started
\* and has not run yet.
InitPost ==
    /\ specs \in {<<x>> : x \in PostSpecs}
    /\ filter = ""
    /\ printBNF \in BOOLEAN
    /\ bnf \in {GoodSource, Without(GoodSource, "truncate_stmt")}
    /\ mainPc = "loop"
    /\ idx = 2
    /\ wg = 2
    /\ pc = [w \in Workers |-> IF w = 0 THEN "start" ELSE IF w = 1 THEN "parse" ELSE "idle"]
    /\ s = [w \in Workers |-> IF w = 1 THEN WithStmt(specs[1]) ELSE ZeroSpec]
    /\ g = [w \in Workers |-> EmptyGrammar]
    /\ ebnf = [w \in Workers |-> <<>>]
    /\ raw = [w \in Workers |-> <<>>]
    /\ applied = [w \in Workers |-> <<>>]
    /\ body = [w \in Workers |-> [tag |-> FALSE, m |-> <<>>]]
    /\ trace = [w \in Workers |-> <<>>]
    /\ fatalArgs = [w \in Workers |-> <<>>]
    /\ files = <<>>
    /\ printed = {}
    /\ logged = {}
    /\ exit = "running"

NextPost ==
    \E w \in {1} :
        \/ Parse(w) \/ InlineStep(w) \/ Extract(w) \/ Replace(w) \/ Render(w)
        \/ Tag(w) \/ WriteOpen(w) \/ WriteClose(w) \/ Fatal(w)

SpecPost == InitPost /\ [][NextPost]_vars

\* ------------------------------------------------- the names of the list

\* The name and stmt fields of every entry of the specs literal, in its
\* order.
SpecNames ==
    << <<"add_column", "alter_table_stmt">>, <<"alter_table_stmt", "">>,
       <<"begin_transaction", "transaction_stmt">>, <<"column_def", "">>,
       <<"col_qual_list", "col_qual_list">>, <<"commit_transaction", "transaction_stmt">>,
       <<"create_database_stmt", "">>, <<"create_index_stmt", "">>,
       <<"create_table_stmt", "">>, <<"delete_stmt", "">>,
       <<"drop_database", "drop_stmt">>, <<"drop_index", "drop_stmt">>,
       <<"drop_stmt", "">>, <<"drop_table", "drop_stmt">>,
       <<"explain_stmt", "">>, <<"family_def", "">>,
       <<"grant_stmt", "">>, <<"index_def", "">>,
       <<"insert_stmt", "">>, <<"iso_level", "">>,
       <<"release_savepoint", "release_stmt">>, <<"rename_column", "rename_stmt">>,
       <<"rename_database", "rename_stmt">>, <<"rename_index", "rename_stmt">>,
       <<"rename_table", "rename_stmt">>, <<"revoke_stmt", "">>,
       <<"rollback_transaction", "transaction_stmt">>, <<"savepoint_stmt", "">>,
       <<"select_stmt", "">>, <<"set_time_zone", "set_stmt">>,
       <<"set_database", "set_stmt">>, <<"set_transaction", "set_stmt">>,
       <<"show_columns", "show_stmt">>, <<"show_constraints", "show_stmt">>,
       <<"show_create_table", "show_stmt">>, <<"show_databases", "show_stmt">>,
       <<"show_grants", "show_stmt">>, <<"show_index", "show_stmt">>,
       <<"show_keys", "show_stmt">>, <<"show_tables", "show_stmt">>,
       <<"show_timezone", "show_stmt">>, <<"show_transaction", "show_stmt">>,
       <<"table_constraint", "">>, <<"truncate_stmt", "">>,
       <<"update_stmt", "">>, <<"upsert_stmt", "insert_stmt">> >>

\* The entries of the specs literal with their name and stmt, the fields the
\* output path can depend on.
NamedSpecs ==
    [k \in 1..Len(SpecNames) |->
        [ZeroSpec EXCEPT !.name = SpecNames[k][1], !.stmt = SpecNames[k][2]]]

\* A source in which the productions a and b exist, each a keyword.
PathSource(a, b) ==
    << Rule("stmt_block", << <<"stmt">> >>) >> \o
    (IF a = b
     THEN << Rule("stmt", << <<a>> >>), Rule(a, << <<"'DROP'">> >>) >>
     ELSE << Rule("stmt", << <<a>>, <<b>> >>),
             Rule(a, << <<"'DROP'">> >>), Rule(b, << <<"'TRUNCATE'">> >>) >>)

\* The grammar, the text and the markup a goroutine holds when it reaches
\* ioutil.WriteFile, every step before it having succeeded.
Ready(src, a) ==
    LET i == Inline(ParseGrammar(src).g, a.inline)
        e == ExtractProduction(i.g, a.topStmt, a.descend, a.nosplit, a.match, a.exclude)
    IN [g |-> i.g, raw |-> e.b, ebnf |-> Normalize(e.b),
        m |-> Markup(Normalize(e.b))]

\* Two entries of the list and the overview, each about to write its file.
InitPaths ==
    /\ specs \in UNION {{<<NamedSpecs[i], NamedSpecs[j]>> :
                               j \in (i + 1)..Len(NamedSpecs)} :
                            i \in 1..Len(NamedSpecs)}
    /\ filter = ""
    /\ printBNF = FALSE
    /\ bnf = PathSource(WithStmt(specs[1]).stmt, WithStmt(specs[2]).stmt)
    /\ mainPc = "loop"
    /\ idx = 3
    /\ wg = 3
    /\ pc = [w \in Workers |-> IF w <= 2 THEN "write" ELSE "idle"]
    /\ s = [w \in Workers |-> IF w \in 1..2 THEN WithStmt(specs[w]) ELSE ZeroSpec]
    /\ LET r == [w \in 0..2 |->
                   Ready(bnf, IF w = 0 THEN OverviewArgs ELSE SpecArgs(s[w]))]
       IN /\ g = [w \in Workers |-> IF w <= 2 THEN r[w].g ELSE EmptyGrammar]
          /\ raw = [w \in Workers |-> IF w <= 2 THEN r[w].raw ELSE <<>>]
          /\ ebnf = [w \in Workers |-> IF w <= 2 THEN r[w].ebnf ELSE <<>>]
          /\ body = [w \in Workers |->
                       IF w = 0 THEN [tag |-> TRUE, m |-> r[w].m]
                       ELSE IF w <= 2 THEN [tag |-> TRUE, m |-> Rehref(r[w].m)]
                       ELSE [tag |-> FALSE, m |-> <<>>]]
    /\ applied = [w \in Workers |-> <<>>]
    /\ trace = [w \in Workers |->
                  IF w = 0
                  THEN << <<"parse", TRUE>>, <<"inline", TRUE>>, <<"extract", TRUE>>,
                          <<"render", TRUE>>, <<"tag", TRUE>> >>
                  ELSE IF w <= 2
                  THEN << <<"parse", TRUE>>, <<"inline", TRUE>>, <<"extract", TRUE>>,
                          <<"replace", TRUE>>, <<"render", TRUE>>, <<"tag", TRUE>> >>
                  ELSE <<>>]
    /\ fatalArgs = [w \in Workers |-> <<>>]
    /\ files = <<>>
    /\ printed = {}
    /\ logged = {}
    /\ exit = "running"

NextPaths ==
    \E w \in 0..2 : WriteOpen(w) \/ WriteClose(w) \/ Fatal(w)

SpecPaths == InitPaths /\ [][NextPaths]_vars

\* ------------------------------------------------------------ properties

\* A step of goroutine w ended with an error.
Failed(w) == \E k \in 1..Len(trace[w]) : ~trace[w][k][2]

\* Goroutine w executed the named step.
Ran(w, name) == \E k \in 1..Len(trace[w]) : trace[w][k][1] = name

\* Goroutine w executed the named step without an error.
RanOK(w, name) == \E k \in 1..Len(trace[w]) : trace[w][k] = <<name, TRUE>>

\* The names of the steps goroutine w executed, in order.
StepNames(w) == [k \in 1..Len(trace[w]) |-> trace[w][k][1]]

\* The filter lets goroutine w work.
Selected(w) == filter = "" \/ filter = Name(w)

\* The goroutines of the run's specs.
Started == 1..Len(specs)

\* Goroutine w's output file is on disk, whole.
Written(w) ==
    /\ Path(w) \in DOMAIN files
    /\ files[Path(w)].complete
    /\ files[Path(w)].by = w

\* What runParse returns for the spec sp when it runs alone on the source.
AloneParse(src, sp) ==
    LET p == ParseGrammar(src)
        a == SpecArgs(WithStmt(sp))
        i == Inline(p.g, a.inline)
        e == ExtractProduction(i.g, a.topStmt, a.descend, a.nosplit, a.match, a.exclude)
    IN [ok |-> p.err = "" /\ i.err = "" /\ e.err = "", raw |-> e.b, b |-> Normalize(e.b)]

\* The texts the spec sp can hand to the renderer when it runs alone.
AloneTexts(src, sp) ==
    LET b0 == AloneParse(src, sp).b
    IN {ApplyList(ApplyList(b0, sp.replace, o1), sp.regreplace, o2) :
           o1 \in RangeOrders(sp.replace), o2 \in RangeOrders(sp.regreplace)}

\* The files the spec sp can write when it runs alone.
AloneBodies(src, sp) ==
    {Unlink(Rehref(Markup(t)), sp.unlink) : t \in AloneTexts(src, sp)}

\* The keys of s.replace and then of s.regreplace, as the spec lists them.
ListedOrder(sp) ==
    [k \in 1..Len(sp.replace) |-> <<"replace", sp.replace[k][1]>>] \o
    [k \in 1..Len(sp.regreplace) |-> <<"regreplace", sp.regreplace[k][1]>>]

\* The steps of a spec's pipeline, in order.
Stages == <<"parse", "inline", "extract", "replace", "render", "tag", "write">>

RECURSIVE SplitTop(_, _, _)
\* The text cut at the "|" that stand outside every group; cur is the
\* alternative being read, depth the number of groups open.
SplitTop(t, cur, depth) ==
    IF Len(t) = 0 THEN <<cur>>
    ELSE IF Head(t) = "|" /\ depth = 0
         THEN <<cur>> \o SplitTop(Tail(t), <<>>, 0)
    ELSE SplitTop(Tail(t), Append(cur, Head(t)),
                  IF Head(t) = "(" THEN depth + 1
                  ELSE IF Head(t) = ")" THEN depth - 1 ELSE depth)

RECURSIVE FirstLine(_)
FirstLine(t) ==
    IF Len(t) = 0 \/ Head(t) = "\n" THEN <<>> ELSE <<Head(t)>> \o FirstLine(Tail(t))

\* The top-level alternatives of the first production of a text
\* name ::= alt | alt ...
TopAlts(t) ==
    IF Len(FirstLine(t)) < 2 THEN <<>>
    ELSE SplitTop(SubSeq(FirstLine(t), 3, Len(FirstLine(t))), <<>>, 0)

\* C1: when a spec's goroutine fails, every other spec whose own steps all
\* succeed still completes and has its output written: at the end of the
\* process no spec that was running, that runParse accepts and that met no
\* error is left without its file.
C1_Isolation ==
    (exit # "running" /\ ~printBNF /\ \E v \in Started : Failed(v)) =>
        \A w \in Started :
            (Len(trace[w]) > 0 /\ ~Failed(w) /\ AloneParse(bnf, specs[w]).ok)
                => Written(w)

\* C2: the replacements of a spec are applied in the order in which the
\* spec lists them, the literal ones and then the regex ones.
C2_ListedOrder ==
    \A w \in Started : Ran(w, "replace") => applied[w] = ListedOrder(s[w])

\* C3: two executions of one spec's pipeline on one source yield the same
\* EBNF text.
C3_Deterministic ==
    (Len(specs) = 2 /\ RanOK(1, "replace") /\ RanOK(2, "replace")) => ebnf[1] = ebnf[2]

\* C4: a spec's steps are executed in the order parse, inline, extract,
\* replace, render, tag, write, each only after the one before it
\* succeeded, and none after the first error.
C4_StageOrder ==
    \A w \in Started :
        /\ Len(trace[w]) <= Len(Stages)
        /\ StepNames(w) = SubSeq(Stages, 1, Len(trace[w]))
        /\ \A k \in 1..(Len(trace[w]) - 1) : trace[w][k][2]

\* C4 witness: one spec went through every step and another stopped at a
\* failed extraction.
C4_Witness ==
    \E w, v \in Started :
        /\ Len(trace[w]) = Len(Stages) /\ ~Failed(w)
        /\ Len(trace[v]) = 3 /\ trace[v][3] = <<"extract", FALSE>>

\* C5: once the parse of the grammar source has failed, no goroutine
\* inlines, extracts or renders, and no file is written.
C5_ParseAbort ==
    (\E v \in Workers : Ran(v, "parse") /\ ~RanOK(v, "parse")) =>
        /\ \A w \in Workers : Len(trace[w]) <= 1
        /\ DOMAIN files = {}

\* C5 witness: the parse failed in two goroutines and the process has
\* ended with status 1.
C5_Witness ==
    /\ exit = "1"
    /\ \E v, w \in Workers : v # w /\ trace[v] = << <<"parse", FALSE>> >>
                                   /\ trace[w] = << <<"parse", FALSE>> >>

\* C6: Run has not returned while a goroutine it started is unfinished.
C6_Join ==
    mainPc = "returned" => \A w \in 0..Len(specs) : pc[w] = "done"

\* C6 witness: Run returned after goroutines wrote their files.
C6_Witness ==
    mainPc = "returned" /\ \A w \in 0..Len(specs) : Written(w)

\* C7: what a spec's goroutine extracts, hands to the renderer and writes
\* is what that spec yields when it runs alone on the fetched source,
\* whatever the other goroutines do.
C7_NoCrossTalk ==
    \A w \in Started :
        RanOK(w, "extract") =>
            LET alone == AloneParse(bnf, specs[w])
            IN /\ alone.ok
               /\ raw[w] = alone.raw
               /\ RanOK(w, "replace") => ebnf[w] \in AloneTexts(bnf, specs[w])
               /\ Written(w) => files[Path(w)].data \in AloneBodies(bnf, specs[w])

\* C7 witness: two specs rooted at the same production, with different
\* match filters, have both written their files.
C7_Witness ==
    \E w, v \in Started :
        /\ w # v /\ s[w].stmt = s[v].stmt /\ s[w].match # s[v].match
        /\ Written(w) /\ Written(v)
        /\ files[Path(w)].data # files[Path(v)].data

\* A spec's pipeline ran to its end without an error.
Succeeded(w) == pc[w] = "done" /\ Len(trace[w]) > 0 /\ ~Failed(w)

\* C8 as stated: the exit status is a failure when a spec failed and a
\* success when every spec's pipeline succeeded.
C8_ExitStatus ==
    exit # "running" =>
        /\ (\E w \in Started : Failed(w)) => exit = "1"
        /\ (\A w \in Started : Succeeded(w)) => exit = "0"

\* C8 amended: the exit status is a failure exactly when the fetch of the
\* grammar or a step of some goroutine, the overview's included, failed,
\* and a success exactly when every goroutine finished without an error.
C8_ExitStatusAllWorkers ==
    exit # "running" =>
        /\ exit = "1" <=> \/ \E m \in logged : m.w = -1
                          \/ \E w \in Workers : Failed(w)
        /\ exit = "0" <=> \A w \in 0..Len(specs) : pc[w] = "done" /\ ~Failed(w)

\* C8 witness: the process ended with status 1 after a spec failed, and
\* another spec had written its file.
C8_Witness ==
    /\ exit = "1"
    /\ \E w, v \in Started : Failed(w) /\ Written(v)

\* C9: the failure of a spec is reported with the name of the spec and
\* the error.
C9_NamedReport ==
    \A m \in logged : m.w \in Started => (m.name = s[m.w].name /\ m.err # "")

\* runParse returned to goroutine w without an error.
ExtractOK(w) == RanOK(w, "extract")

KeptAlts(w) ==
    SelectSeq(g[Slot(w)][Args(w).topStmt],
              LAMBDA alt : Keep(alt, Args(w).match, Args(w).exclude))

\* The last step goroutine w executed.
LastStep(w) == trace[w][Len(trace[w])]

\* Goroutine w wrote, or began to write, a file.
Wrote(w) == \E p \in DOMAIN files : files[p].by = w

\* C11: when the match and exclude patterns remove every alternative of
\* the root production, the extraction fails with EmptyExtractionError, the
\* goroutine stops there and neither replaces, renders nor writes; and an
\* extraction that succeeded returned a fragment with at least one
\* alternative, none of them empty.
C11_EmptyExtraction ==
    \A w \in Started :
        /\ (/\ Ran(w, "extract")
            /\ Args(w).topStmt \in DOMAIN g[Slot(w)]
            /\ Len(KeptAlts(w)) = 0)
              => /\ LastStep(w) = <<"extract", FALSE>>
                 /\ fatalArgs[w].err = "EmptyExtractionError"
                 /\ pc[w] = "fatal"
                 /\ body[w].m = <<>> /\ ~Wrote(w)
        /\ RanOK(w, "extract") =>
              /\ Len(TopAlts(raw[w])) > 0
              /\ \A k \in 1..Len(TopAlts(raw[w])) : TopAlts(raw[w])[k] # <<>>

\* C11 witness: a spec with a match pattern whose root production is in
\* the grammar failed with EmptyExtractionError and the process has ended.
C11_Witness ==
    \E w \in Started :
        /\ Len(s[w].match) > 0
        /\ s[w].stmt \in DOMAIN g[Slot(w)]
        /\ LastStep(w) = <<"extract", FALSE>>
        /\ exit = "1"
        /\ \E m \in logged : m.w = w /\ m.err = "EmptyExtractionError"

RECURSIVE PathThrough(_, _, _, _)
\* In the grammar gr a chain of references leads from the production from
\* to the name to, passing only through productions named in via.
PathThrough(gr, from, to, via) ==
    /\ from \in DOMAIN gr
    /\ \E x \in Range(Flatten(gr[from])) :
          \/ x = to
          \/ x \in via /\ PathThrough(gr, x, to, via \ {x})

\* The k-th of the names refers to itself, directly or through the names
\* inlined before it.
CyclicAt(gr, names, k) ==
    /\ names[k] \in DOMAIN gr
    /\ PathThrough(gr, names[k], names[k], {names[j] : j \in 1..(k - 1)})

\* The inlining of the names in gr meets a name that refers to itself, the
\* names before it being productions that do not.
InlineCycle(gr, names) ==
    \E k \in 1..Len(names) :
        /\ CyclicAt(gr, names, k)
        /\ \A j \in 1..(k - 1) : names[j] \in DOMAIN gr /\ ~CyclicAt(gr, names, j)

\* The Grammar runParse parses from the fetched source.
BaseGrammar == ParseGrammar(bnf).g

C13_RoundTrip ==
    \A w \in Started :
        RanOK(w, "extract") =>
            /\ ~Contains(raw[w], <<"\n">>)
            /\ \A k \in 1..Len(s[w].inline) :
                  /\ ~Contains(raw[w], <<s[w].inline[k]>>)
                  /\ s[w].inline[k] \notin DOMAIN g[Slot(w)]

\* C13 witness: the root production referred to a name of the inline list
\* in the parsed grammar, and the extraction after the inlining succeeded.
C13_Witness ==
    \E w \in Started :
        /\ RanOK(w, "extract")
        /\ Len(s[w].inline) = 2
        /\ \A k \in 1..2 :
              Contains(Flatten(BaseGrammar[s[w].stmt]), <<s[w].inline[k]>>)

\* C14: when the root a spec names is not a production of the Grammar, the
\* extraction fails with UnknownProductionError and the spec's goroutine
\* stops there: no text is replaced or rendered and no file written for it.
C14_UnknownRoot ==
    \A w \in Started :
        (Ran(w, "extract") /\ Args(w).topStmt \notin DOMAIN g[Slot(w)]) =>
            /\ LastStep(w) = <<"extract", FALSE>>
            /\ fatalArgs[w] = [name |-> specs[w].name, err |-> "UnknownProductionError"]
            /\ pc[w] = "fatal"
            /\ ebnf[w] = <<>> /\ body[w].m = <<>> /\ ~Wrote(w)

\* C14 witness: a spec whose root is missing from the fetched grammar
\* failed at the extraction, the failure was logged with UnknownProductionError
\* and the process has ended.
C14_Witness ==
    \E w \in Started :
        /\ Ran(w, "extract")
        /\ s[w].stmt \notin DOMAIN BaseGrammar
        /\ exit = "1"
        /\ \E m \in logged : m.w = w /\ m.err = "UnknownProductionError"

SpecName(w) == IF w = 0 THEN "stmt_block" ELSE specs[w].name

\* C16: with a filter, a goroutine whose name is not the filter executes no
\* step: it parses no Grammar, has no text and no markup, prints nothing
\* and writes no file.
C16_FilterOnly ==
    filter # "" =>
        \A w \in 0..Len(specs) :
            SpecName(w) # filter =>
                /\ trace[w] = <<>>
                /\ pc[w] \in {"idle", "start", "done"}
                /\ g[w] = EmptyGrammar
                /\ raw[w] = <<>> /\ ebnf[w] = <<>> /\ body[w].m = <<>>
                /\ ~Wrote(w)
                /\ \A m \in printed : m[1] # SpecName(w)

\* C16 witness: with the filter naming one spec, that spec wrote its file,
\* the overview and the other spec returned without a step, and Run has
\* returned.
C16_Witness ==
    /\ filter # "" /\ mainPc = "returned"
    /\ \E w \in Started :
          /\ SpecName(w) = filter /\ Written(w)
          /\ \A v \in 0..Len(specs) :
                v # w => pc[v] = "done" /\ trace[v] = <<>>

\* C17: with --bnf no goroutine calls the renderer and no file is written;
\* a goroutine that returned after its extraction has printed its text, a
\* spec's the text after the replacements, and executed no step after
\* them.
C17_PrintOnly ==
    printBNF =>
        /\ DOMAIN files = {}
        /\ \A w \in Workers :
              /\ ~Ran(w, "render") /\ ~Ran(w, "tag") /\ ~Ran(w, "write")
              /\ body[w].m = <<>>
              /\ pc[w] \notin {"render", "tag", "write", "writing"}
        /\ \A w \in Started :
              (pc[w] = "done" /\ Len(trace[w]) > 0) =>
                  /\ LastStep(w) = <<"replace", TRUE>>
                  /\ <<specs[w].name, "POST REPLACE", ebnf[w]>> \in printed
        /\ (pc[0] = "done" /\ Len(trace[0]) > 0) =>
              /\ LastStep(0) = <<"extract", TRUE>>
              /\ <<"stmt_block", "", ebnf[0]>> \in printed

\* C17 witness: with --bnf a spec with replacements and the overview have
\* printed their texts, and Run has returned with no file written.
C17_Witness ==
    /\ printBNF /\ mainPc = "returned" /\ DOMAIN files = {}
    /\ \E m \in printed : m[1] = "stmt_block"
    /\ \E w \in Started :
          /\ Len(specs[w].replace) > 0
          /\ <<specs[w].name, "POST REPLACE", ebnf[w]>> \in printed
          /\ ebnf[w] # Normalize(raw[w])

\* The atom continues the name that the atom before it began.
Continues(a) == a \in {"_LA", "ITY", "Y"}

RECURSIVE TokenNormalize(_)
\* The text with the token name IDENT rewritten to identifier and the suffix
\* _LA stripped where it ends a token name, and nothing else changed.
TokenNormalize(t) ==
    IF Len(t) = 0 THEN <<>>
    ELSE LET ends == Len(t) = 1 \/ ~Continues(t[2])
         IN (IF Head(t) = "IDENT" /\ ends THEN <<"identifier">>
             ELSE IF Head(t) = "_LA" /\ ends THEN <<>>
             ELSE <<Head(t)>>) \o TokenNormalize(Tail(t))

\* The text with every occurrence of IDENT rewritten and every occurrence
\* of _LA taken out, wherever they stand.
EveryOccurrence(t) ==
    LET u == SelectSeq(t, LAMBDA a : a # "_LA")
    IN [k \in 1..Len(u) |-> IF u[k] = "IDENT" THEN "identifier" ELSE u[k]]

\* C18 as stated: the text runParse returns is the serialized fragment with
\* the token name IDENT rewritten to identifier and the suffix _LA stripped
\* from token names, and is otherwise unchanged.
C18_NormalizeTokens ==
    \A w \in {0} \cup Started :
        RanOK(w, "extract") => ebnf[w] = TokenNormalize(raw[w])

\* What runParse does instead: the text it returns is the serialized
\* fragment with every occurrence of the characters IDENT replaced by
\* identifier and every occurrence of _LA removed, also inside a longer
\* name.
NormalizeBytes ==
    \A w \in {0} \cup Started :
        RanOK(w, "extract") =>
            /\ ebnf[w] = EveryOccurrence(raw[w])
            /\ ~Contains(ebnf[w], <<"IDENT">>) /\ ~Contains(ebnf[w], <<"_LA">>)

\* runParse returned a text whose fragment held IDENT as a token name and
\* inside IDENTITY, and _LA at the end of a name.
NormalizeBytesSeen ==
    \E w \in {0} \cup Started :
        /\ RanOK(w, "extract")
        /\ Contains(raw[w], <<"|", "IDENT", "ITY">>)
        /\ Contains(raw[w], <<"::=", "IDENT", "|">>)
        /\ Contains(raw[w], <<"'NOT", "_LA", "'">>)
        /\ Contains(ebnf[w], <<"identifier", "ITY">>)

\* The production a spec is to be extracted from: the one it names, or the
\* one of its display name.
SourceProduction(sp) == IF sp.stmt = "" THEN sp.name ELSE sp.stmt

\* C19: a spec is extracted from the production it names as its source, or
\* from the production of its display name when it names none, and the
\* file it writes is the one of its display name in both cases.
C19_StmtDefault ==
    \A w \in Started :
        Len(trace[w]) > 0 =>
            /\ s[w].name = specs[w].name
            /\ Args(w).topStmt = SourceProduction(specs[w])
            /\ RanOK(w, "extract") => Head(raw[w]) = SourceProduction(specs[w])
            /\ \A p \in DOMAIN files :
                  files[p].by = w => p = SpecPath(specs[w].name)

\* C19 witness: a spec that names no source production and a spec that
\* names one other than its display name have both written their files.
C19_Witness ==
    \E w, v \in Started :
        /\ specs[w].stmt = "" /\ Written(w)
        /\ Head(raw[w]) = specs[w].name
        /\ specs[v].stmt \notin {"", specs[v].name} /\ Written(v)
        /\ Head(raw[v]) = specs[v].stmt
        /\ SpecPath(specs[v].name) \in DOMAIN files

RECURSIVE Lines(_, _)
\* The lines of a text; cur is the line being read.
Lines(t, cur) ==
    IF Len(t) = 0 THEN <<cur>>
    ELSE IF Head(t) = "\n" THEN <<cur>> \o Lines(Tail(t), <<>>)
    ELSE Lines(Tail(t), Append(cur, Head(t)))

RECURSIVE ReachFrom(_, _)
\* The productions of gr that the productions of the set S refer to,
\* directly or through others, with S itself.
ReachFrom(gr, S) ==
    LET next == S \cup {x \in UNION {Range(Flatten(gr[n])) : n \in S} : x \in DOMAIN gr}
    IN IF next = S THEN S ELSE ReachFrom(gr, next)

\* C20: the extraction with descent ends on every grammar, also when
\* productions refer to themselves or to one another in a cycle: the text
\* it returns has one production for each production reachable from the
\* root and none twice, so at most as many as the grammar has.
C20_DescendTerminates ==
    (Ran(0, "extract") /\ "stmt_block" \in DOMAIN g[0]) =>
        LET ls == Lines(raw[0], <<>>)
        IN /\ RanOK(0, "extract")
           /\ Len(ls) <= Cardinality(DOMAIN g[0])
           /\ \A j, k \in 1..Len(ls) : j # k => Head(ls[j]) # Head(ls[k])
           /\ {Head(ls[k]) : k \in 1..Len(ls)} = ReachFrom(g[0], {"stmt_block"})
           /\ \A k \in 1..Len(ls) : ls[k] = Serialize(Head(ls[k]), g[0][Head(ls[k])])

\* C20 witness: the overview was extracted from a grammar in which a
\* refers to itself, and stmt_block to itself through a and b and not
\* directly, and the text has the three productions.
C20_Witness ==
    /\ RanOK(0, "extract")
    /\ {"stmt_block", "a", "b"} \subseteq DOMAIN g[0]
    /\ PathThrough(g[0], "a", "a", {})
    /\ ~PathThrough(g[0], "stmt_block", "stmt_block", {})
    /\ PathThrough(g[0], "b", "stmt_block", {})
    /\ PathThrough(g[0], "stmt_block", "stmt_block", {"a", "b"})
    /\ Len(Lines(raw[0], <<>>)) = 3

\* The replacement of the key from in the spec's map of the given kind.
ToOf(sp, kind, from) ==
    LET m == IF kind = "replace" THEN sp.replace ELSE sp.regreplace
    IN (CHOOSE k \in 1..Len(m) : m[k][1] = from)

RECURSIVE Replay(_, _, _)
\* The text after the replacements of the list done, applied in its order.
Replay(t, sp, done) ==
    IF Len(done) = 0 THEN t
    ELSE LET m == IF Head(done)[1] = "replace" THEN sp.replace ELSE sp.regreplace
         IN Replay(ReplaceAll(t, Head(done)[2], m[ToOf(sp, Head(done)[1], Head(done)[2])][2]),
                   sp, Tail(done))

\* C21: a spec's replacements are applied only after its extraction
\* succeeded; every entry of replace is applied, then every entry of
\* regreplace; and the renderer is called only after them, with the text
\* they left.
C21_ReplaceOrder ==
    \A w \in Started :
        /\ ~Ran(w, "replace") => (applied[w] = <<>> /\ ~Ran(w, "render"))
        /\ Ran(w, "replace") =>
              /\ RanOK(w, "extract")
              /\ Len(applied[w]) = Len(s[w].replace) + Len(s[w].regreplace)
              /\ \A k \in 1..Len(applied[w]) :
                    applied[w][k][1] =
                        IF k <= Len(s[w].replace) THEN "replace" ELSE "regreplace"
              /\ {applied[w][k][2] : k \in 1..Len(s[w].replace)}
                    = {s[w].replace[k][1] : k \in 1..Len(s[w].replace)}
              /\ {applied[w][k][2] : k \in (Len(s[w].replace) + 1)..Len(applied[w])}
                    = {s[w].regreplace[k][1] : k \in 1..Len(s[w].regreplace)}
              /\ ebnf[w] = Replay(Normalize(raw[w]), s[w], applied[w])
        /\ pc[w] = "tag" => body[w].m = Markup(ebnf[w])

\* C21 witness: a spec with two literal and two regex replacements was
\* rendered; a regex replacement acted on a name that a literal one had
\* written.
C21_Witness ==
    \E w \in Started :
        /\ Len(s[w].replace) = 2 /\ Len(s[w].regreplace) = 2
        /\ pc[w] = "tag" /\ body[w].tag
        /\ Contains(raw[w], <<"qualified_name">>)
        /\ ~Contains(ebnf[w], <<"qualified_name">>)
        /\ ~Contains(ebnf[w], <<"table_name">>)
        /\ Contains(ebnf[w], <<"name">>)

\* The content of a link, the link taken away.
Bare(e) == [kind |-> "text", page |-> "", anchor |-> "", title |-> "", inner |-> e.inner]

\* C22: the markup a spec has after the unlink loop is the markup the
\* renderer returned for its text in which every link to a name of the
\* spec's unlink list is replaced by its content, and every other link is
\* left a link to that name, and nothing else differs.
C22_Unlink ==
    \A w \in Started :
        RanOK(w, "tag") =>
            LET rr == Markup(ebnf[w])
            IN /\ RanOK(w, "render")
               /\ Len(body[w].m) = Len(rr)
               /\ \A k \in 1..Len(rr) :
                     IF rr[k].kind = "a" /\ rr[k].anchor \in Range(s[w].unlink)
                     THEN body[w].m[k] = Bare(rr[k])
                     ELSE IF rr[k].kind = "a"
                     THEN body[w].m[k] = [rr[k] EXCEPT !.page = "sql-grammar.html"]
                     ELSE body[w].m[k] = rr[k]

\* C22 witness: a spec with two names to unlink has a markup in which a
\* link to one of them was replaced by its content and a link to a name
\* outside the list was kept, and has written it.
C22_Witness ==
    \E w \in Started :
        /\ Written(w) /\ Len(s[w].unlink) = 2
        /\ \E j, k \in 1..Len(files[Path(w)].data) :
              LET rr == Markup(ebnf[w])
                  d == files[Path(w)].data
              IN /\ rr[j].kind = "a" /\ rr[j].anchor \in Range(s[w].unlink)
                 /\ d[j].kind = "text" /\ d[j].inner = rr[j].anchor
                 /\ d[k].kind = "a" /\ d[k].anchor \notin Range(s[w].unlink)

\* The number of times a worker has called the renderer.
RenderCalls(w) == Cardinality({k \in 1..Len(trace[w]) : trace[w][k][1] = "render"})

\* A step that fetches: Run leaves runBNF.
FetchStep == mainPc = "fetch" /\ mainPc' # "fetch"

\* C23: the source is fetched once, before any goroutine is started: while
\* runBNF has not returned no worker has left idle and the source is still
\* empty, a worker that has left idle works on a fetched source, the source
\* changes in no step but the one that leaves runBNF, Run never comes back
\* to runBNF; and no worker calls the renderer more than once.
C23_FetchOnce ==
    /\ [](/\ mainPc = "fetch" => (bnf = <<>> /\ \A w \in Workers : pc[w] = "idle")
          /\ (\E w \in Workers : pc[w] # "idle") => bnf \in Sources
          /\ \A w \in Workers : RenderCalls(w) <= 1)
    /\ [][/\ bnf' # bnf => FetchStep
          /\ mainPc # "fetch" => mainPc' # "fetch"
          /\ \A w \in Workers :
                RenderCalls(w)' > RenderCalls(w) => (pc[w] = "render" /\ pc'[w] # "render")]_vars

\* C23 witness: a run has come to its end with status 0 after the fetch;
\* both a spec and the overview have called the renderer, once each.
C23_Witness ==
    /\ exit = "0" /\ bnf \in Sources
    /\ RenderCalls(0) = 1
    /\ \E w \in Started : RenderCalls(w) = 1

RECURSIVE FileName(_)
\* The file name a path spells.
FileName(p) == IF p = <<>> THEN "" ELSE Head(p) \o FileName(Tail(p))

\* C24: the goroutines of a run write different files: the file names of
\* two started goroutines differ, whichever entries of the list and whether
\* or not one is the overview, and a file a goroutine has opened or written
\* is its own, no other goroutine having opened the same path after it.
C24_DistinctPaths ==
    /\ \A v, w \in Workers :
          (v # w /\ pc[v] # "idle" /\ pc[w] # "idle") =>
              FileName(Path(v)) # FileName(Path(w))
    /\ \A w \in Workers :
          (pc[w] = "writing" \/ RanOK(w, "write")) =>
              (Path(w) \in DOMAIN files /\ files[Path(w)].by = w)

\* C24 witness: insert_stmt, upsert_stmt (whose production is insert_stmt)
\* and the overview have each written a file, three files in all.
C24_Witness ==
    /\ Len(specs) = 2
    /\ specs[1].name = "insert_stmt" /\ specs[2].name = "upsert_stmt"
    /\ \A w \in 0..2 : Written(w)
    /\ Cardinality({FileName(p) : p \in DOMAIN files}) = 3

\* C25: when the run has ended no goroutine is inside ioutil.WriteFile, and
\* every file on disk is whole unless the write of its own goroutine
\* failed.
C25_CompleteArtifacts ==
    exit # "running" =>
        /\ \A w \in Workers : pc[w] # "writing"
        /\ \A p \in DOMAIN files : files[p].complete \/ Failed(files[p].by)

\* The steps of a goroutine that come before ioutil.WriteFile and can fail.
BeforeWrite == {"parse", "inline", "extract", "render", "tag"}

\* C26: a goroutine, the overview's included, that is at ioutil.WriteFile,
\* inside it or past it, or that has a file on disk, has passed parse,
\* inline, extract, render and tag without an error; and a goroutine one of
\* whose steps failed has no file on disk.
C26_WriteAfterSuccess ==
    \A w \in Workers :
        /\ (pc[w] \in {"write", "writing"} \/ Ran(w, "write") \/ Wrote(w)) =>
              \A st \in BeforeWrite : RanOK(w, st)
        /\ (\E st \in BeforeWrite : Ran(w, st) /\ ~RanOK(w, st)) => ~Wrote(w)

\* C26 witness: the markup returned for the overview held no body element;
\* its goroutine has ended the process and has written no file, while a
\* spec whose steps all succeeded has written its own.
C26_Witness ==
    /\ exit = "1"
    /\ Len(trace[0]) = 5 /\ trace[0][5] = <<"tag", FALSE>>
    /\ RanOK(0, "render") /\ ~Wrote(0)
    /\ \E w \in Started : Written(w)

\* The fetch or a step of some goroutine failed.
AnyFailure ==
    \/ \E m \in logged : m.w = -1
    \/ \E w \in Workers : Failed(w)

\* The goroutines that were started and have not returned.
Unfinished == {w \in Workers : pc[w] \notin {"idle", "done"}}

\* C27: the counter of the WaitGroup is at every moment the number of
\* goroutines started and not returned, so each goroutine was added once
\* before it ran and has signalled once when it returned, whichever way it
\* returned; when the loop over specs is over every goroutine of the run
\* has been added; Run returns only with the counter at zero; and a run in
\* which nothing fails comes to its end with status 0.
C27_Terminates ==
    /\ [](/\ wg = Cardinality(Unfinished)
          /\ (mainPc = "loop" /\ idx > Len(specs)) =>
                \A w \in 0..Len(specs) : pc[w] # "idle"
          /\ mainPc = "returned" => wg = 0)
    /\ <>(exit = "0" \/ AnyFailure)

\* C27 witness: a run with a filter has ended with status 0, the counter at
\* zero: one goroutine returned at the filter test without a step, and
\* another returned after writing its file or after printing its text.
C27_Witness ==
    /\ exit = "0" /\ wg = 0 /\ filter # ""
    /\ \E v, w \in 0..Len(specs) :
          /\ pc[v] = "done" /\ trace[v] = <<>>
          /\ pc[w] = "done" /\ (Written(w) \/ \E x \in printed : x[1] = Name(w))

====
